---- MODULE Spec2Model ----
(***************************************************************************)
(* Model of qiskit_bot/release_process.py: the post-tag release workflow.   *)
(*                                                                          *)
(* A run is one call, from some process, of one of the module's public      *)
(* functions: finish_release, create_github_release or bump_meta.  Runs of   *)
(* finish_release take the inter-process locks of lines 138 and 165; the     *)
(* remote state (branches, hosted releases, open pull requests) and the      *)
(* lock files are shared by all runs.                                        *)
(*                                                                          *)
(* Python values keep their type: version_number.split('.') yields str       *)
(* pieces, and the comparisons and the arithmetic of the source are applied  *)
(* to them as Python applies them (str == int is False, str > int and        *)
(* str + int raise TypeError).                                               *)
(***************************************************************************)
EXTENDS Integers, Sequences, FiniteSets, TLC

\* ------------------------------------------------------------------ bounds
NRuns == 2
\* Calls of create_github_release and bump_meta made from outside finish_release.
MaxCalls == 1

Runs == 1..NRuns

\* ------------------------------------------------------------ input spaces
\* Releasing repositories, by repo.name (the lock file's name, line 138).
Repos == {"a", "b"}
\* meta_repo.name, the second lock file's name (line 165).
MetaName == "meta"
LockNames == Repos \cup {MetaName}

\* A version_number is the dotted text of its numeric components: <<1, 2, 0>> is
\* "1.2.0"; <<1, 2>> is the two-component text "1.2".
Versions == {<<1, 2, 0>>, <<1, 2, 1>>, <<1, 2>>}
\* What git.get_latest_tag(repo) returns: a tag's text, or None.
NoTag == <<>>
Tags == {<<0, 5, 0>>, NoTag}

\* ------------------------------------------------------------ Python values
PyStr(n) == [t |-> "str", v |-> n]
PyInt(n) == [t |-> "int", v |-> n]
None == [t |-> "None"]
Raised(e) == [t |-> "exc", v |-> e]
IsRaised(x) == x.t = "exc"

\* version_number.split('.'): a list of str, one per component.
Split(version_number) ==
    [i \in 1..Len(version_number) |-> PyStr(version_number[i])]

\* x == n, n an int literal: a str never equals an int.
PyEqInt(x, n) == x.t = "int" /\ x.v = n

\* x > n, n an int literal: str > int raises TypeError.
PyGtInt(x, n) ==
    IF x.t = "int" THEN [t |-> "bool", v |-> x.v > n] ELSE Raised("TypeError")

\* x + n and x - n, n an int literal: str + int and str - int raise TypeError.
PyAddInt(x, n) ==
    IF x.t = "int" THEN PyInt(x.v + n) ELSE Raised("TypeError")

PySubInt(x, n) ==
    IF x.t = "int" THEN PyInt(x.v - n) ELSE Raised("TypeError")

\* '.'.join(xs): every item must be a str.
PyJoin(xs) ==
    IF \A i \in 1..Len(xs) : xs[i].t = "str"
    THEN [t |-> "text", v |-> [i \in 1..Len(xs) |-> xs[i].v]]
    ELSE Raised("TypeError")

\* ------------------------------------------------------- pure code fragments
\* branch_number = '.'.join(version_number_pieces[:2]); the branch is named
\* 'stable/' + branch_number, identified here by branch_number.
BranchNumber(pieces) == [i \in 1..(IF Len(pieces) < 2 THEN Len(pieces) ELSE 2) |-> pieces[i].v]

\* CutCondition without the test of the patch component.
CutConditionAnyRelease(pieces, branch_name, repo_branches) ==
    branch_name \notin repo_branches

\* Lines 144-145: the test guarding git.create_branch (pieces has a third item).
CutCondition(pieces, branch_name, repo_branches) ==
    PyEqInt(pieces[3], 0) /\ branch_name \notin repo_branches

\* Lines 148-160: log_string, '<version>...<previous>', or the exception raised
\* while it is computed.
LogText(from, to) == [t |-> "text", from |-> from, to |-> to]

LogString(version_number, pieces) ==
    IF Len(pieces) < 3 THEN Raised("IndexError")
    ELSE LET patch == PyGtInt(pieces[3], 0) IN
         IF IsRaised(patch) THEN patch
         ELSE IF patch.v
         THEN LET prev == PySubInt(pieces[3], 1)
                  to == IF IsRaised(prev) THEN prev
                        ELSE PyJoin(<<pieces[1], pieces[2], prev>>)
              IN IF IsRaised(to) THEN to ELSE LogText(version_number, to.v)
         ELSE \* version_number_pieces[0] + [...]: str + list
              Raised("TypeError")

\* NextMetaVersion that computes a version whatever get_latest_tag returned.
NextMetaVersionIgnoreTag(pieces, meta_version) ==
    [t |-> "text", v |-> <<0, 0, 0>>]

\* Lines 41-50: new_meta_version from the release's pieces and the text
\* git.get_latest_tag returned, or the exception raised.
NextMetaVersion(pieces, meta_version) ==
    IF meta_version = NoTag THEN Raised("AttributeError")
    ELSE IF Len(pieces) < 3 THEN Raised("IndexError")
    ELSE LET meta_pieces == Split(meta_version) IN
         IF PyEqInt(pieces[3], 0)
         THEN LET minor == PyAddInt(meta_pieces[2], 1) IN
              IF IsRaised(minor) THEN minor
              ELSE [t |-> "text", v |-> <<meta_pieces[1].v, minor.v, 0>>]
         ELSE LET patch == PyAddInt(meta_pieces[3], 1) IN
              IF IsRaised(patch) THEN patch
              ELSE [t |-> "text", v |-> <<meta_pieces[1].v, meta_pieces[2].v, patch.v>>]

\* ---------------------------------------------------------------- changelog
\* A git log line: its summary and the text between the last parentheses of the
\* summary ("#<pr>"), pr = 0 when the summary has no parentheses.
LogLine(summary, pr) == [summary |-> summary, pr |-> pr]
GitLogs ==
    {<<>>, <<LogLine("s1", 1), LogLine("s2", 0)>>,
     <<LogLine("s1", 1), LogLine("s2", 2), LogLine("s3", 1)>>}

\* Line 107: the labels of pull request pr, as the hosting API returns them.
LabelsOf(pr) == IF pr = 1 THEN {"bug", "ci"} ELSE {"docs"}

\* changelog_categories: label -> display name, in the dict's order.
NoCategories == <<>>
Categories == << <<"bug", "Fixed">> >>
CategoryMaps == {NoCategories, Categories}

\* GenerateChangelog that skips the lines it cannot parse.
GenerateChangelogSkipMalformed(git_log, categories) ==
    IF git_log = <<>> THEN None
    ELSE [t |-> "text", v |-> <<"# Changelog">>]

\* Lines 90-118: the changelog, None, or the exception raised.
GenerateChangelog(git_log, categories) ==
    IF git_log = <<>> THEN None
    ELSE IF \E i \in 1..Len(git_log) : git_log[i].pr = 0
    THEN \* pr_regex.match(summary) is None: None[1]
         Raised("TypeError")
    ELSE IF categories # NoCategories
    THEN \* changelog is a str: changelog.append
         Raised("AttributeError")
    ELSE [t |-> "text", v |-> <<"# Changelog">>]

\* ------------------------------------------------------------------- state
VARIABLES
    run,          \* each run: its position, arguments, locals and outcome
    lock,         \* lock file name -> the run holding it, 0 if free
    branches,     \* repo -> the stable branches of its remote
    created,      \* the git.create_branch calls made on releasing repositories
    releases,     \* the hosted releases
    pulls,        \* titles of the meta repository's open pull requests
    meta_branches,\* branches of the meta repository
    setup_py,     \* repo -> the lines of <repo.local_path>/setup.py
    meta_setup_py,\* the lines of the meta repository's own setup.py
    commits       \* the commits of git.create_git_commit_for_all

vars == <<run, lock, branches, created, releases, pulls, meta_branches,
          setup_py, meta_setup_py, commits>>

remote == <<branches, created, releases, pulls, meta_branches, setup_py,
            meta_setup_py, commits>>

\* conf['repos'][repo.repo_name]: the configuration of each repository, read
\* only.  Repository "a" has both flags set and "b" has neither, so each of the
\* two independent tests (lines 139 and 141) is taken both ways.
conf ==
    [rp \in Repos |->
        [reno |-> rp = "a", branch_on_release |-> rp = "a",
         changelog_categories |-> Categories]]

\* A setup.py: a line pinning each package ("<pkg>==<v>"), the line assigning
\* the version ("version=<v>") and a line of neither kind.
ManifestLine(kind, pkg, v) == [kind |-> kind, pkg |-> pkg, v |-> v]
Manifest ==
    <<ManifestLine("other", "", <<>>),
      ManifestLine("pin", "a", <<1, 1, 0>>),
      ManifestLine("pin", "b", <<1, 1, 0>>),
      ManifestLine("version", "", <<0, 5, 0>>)>>

\* A run that has not been called yet.  pc is the run's position, op the
\* function it calls, repo and version_number its arguments, err and at the
\* exception that ended it and where it was raised; the other fields are the
\* function's locals of the same names.
Idle ==
    [pc |-> "idle", op |-> "", repo |-> "", version_number |-> <<>>,
     categories |-> NoCategories, err |-> "", at |-> "",
     reno_notes |-> None, log_string |-> None, git_log |-> <<>>,
     meta_version |-> NoTag, new_meta_version |-> None]

Init ==
    /\ run = [r \in Runs |-> Idle]
    /\ lock = [n \in LockNames |-> 0]
    /\ branches \in {[rp \in Repos |-> {}], [rp \in Repos |-> {<<1, 2>>}]}
    /\ created = {}
    /\ releases = {}
    /\ pulls = <<>>
    /\ meta_branches = {"master"}
    /\ setup_py = [rp \in Repos |-> Manifest]
    /\ meta_setup_py = Manifest
    /\ commits = <<>>

\* ------------------------------------------------------------------- locks
\* fasteners.InterProcessLock(os.path.join(lock_dir, <name>)): the lock file a
\* run at a with statement asks for (repo.name at line 138, meta_repo.name at
\* line 165).
\* LockName with one lock file for every repository.
LockNameShared(r) == MetaName

LockName(r) == IF run[r].pc = "lock_meta" THEN MetaName ELSE run[r].repo

\* CanAcquire of a lock that does not block.
CanAcquireAlways(name) == TRUE

\* Entering the with statement blocks until no process holds the lock file.
CanAcquire(name) == lock[name] = 0

\* WithExit that leaves the lock held.
WithExitKeep(l, r) == l

\* Leaving the with statement, normally or by an exception: the lock the run
\* holds is released.
WithExit(l, r) == [n \in LockNames |-> IF l[n] = r THEN 0 ELSE l[n]]

\* The run goes on to position next with its locals as in rec.
Goto(r, rec, next) ==
    /\ run' = [run EXCEPT ![r] = [rec EXCEPT !.pc = next]]
    /\ UNCHANGED lock

\* An exception propagates out of the run: every enclosing with statement is
\* left and the run ends; its arguments, log_string, the git log it read and
\* bump_meta's version locals stay on record.
Fail(r, rec, e, where) ==
    /\ run' = [run EXCEPT ![r] =
          [Idle EXCEPT !.pc = "failed", !.op = rec.op, !.repo = rec.repo,
                       !.version_number = rec.version_number,
                       !.categories = rec.categories,
                       !.err = e, !.at = where,
                       !.log_string = rec.log_string,
                       !.git_log = rec.git_log,
                       !.meta_version = rec.meta_version,
                       !.new_meta_version = rec.new_meta_version]]
    /\ lock' = WithExit(lock, r)

\* ----------------------------------------------------------------- entries
\* Lines 129-137 of finish_release, up to the first with statement.
CallFinishRelease(r) ==
    /\ run[r].pc = "idle"
    /\ \E rp \in Repos, v \in Versions, get_repo \in {"ok", "GithubException"} :
        LET rec == [Idle EXCEPT !.op = "finish_release", !.repo = rp,
                                !.version_number = v,
                                !.categories = conf[rp].changelog_categories]
        IN IF get_repo = "ok"
           THEN Goto(r, rec, "lock_repo")
           ELSE Fail(r, rec, get_repo, "start")
    /\ UNCHANGED remote

\* The calls made from outside finish_release that have not returned yet or
\* have ended.
DirectCalls == {x \in Runs : run[x].op \in {"create_github_release", "bump_meta"}}

\* A call of create_github_release from outside finish_release.
CallCreateGithubRelease(r) ==
    /\ run[r].pc = "idle"
    /\ Cardinality(DirectCalls) < MaxCalls
    /\ \E rp \in Repos, v \in Versions, c \in CategoryMaps :
        Goto(r, [Idle EXCEPT !.op = "create_github_release", !.repo = rp,
                             !.version_number = v, !.categories = c,
                             !.log_string = LogText(v, v)], "release")
    /\ UNCHANGED remote

\* A call of bump_meta from outside finish_release.
CallBumpMeta(r) ==
    /\ run[r].pc = "idle"
    /\ Cardinality(DirectCalls) < MaxCalls
    /\ \E rp \in Repos, v \in Versions :
        Goto(r, [Idle EXCEPT !.op = "bump_meta", !.repo = rp,
                             !.version_number = v], "bump")
    /\ UNCHANGED remote

\* ----------------------------------------------------------- finish_release
\* Lines 138 and 165: entering a with statement.
Acquire(r) ==
    /\ run[r].pc \in {"lock_repo", "lock_meta"}
    /\ CanAcquire(LockName(r))
    /\ lock' = [lock EXCEPT ![LockName(r)] = r]
    /\ run' = [run EXCEPT ![r].pc = IF @ = "lock_repo" THEN "reno" ELSE "bump"]
    /\ UNCHANGED remote

\* Lines 29-36: what _run_reno returns when subprocess.run ends as `outcome`.
RunRenoResult(outcome) ==
    CASE outcome = "ok" -> [t |-> "text", v |-> <<"report">>]
      [] outcome = "CalledProcessError" -> None
      [] OTHER -> Raised(outcome)

\* Lines 139-140.
RunReno(r) ==
    /\ run[r].pc = "reno"
    /\ IF conf[run[r].repo].reno
       THEN \E outcome \in {"ok", "CalledProcessError", "FileNotFoundError"} :
              LET res == RunRenoResult(outcome) IN
              IF IsRaised(res)
              THEN Fail(r, run[r], res.v, "reno")
              ELSE Goto(r, [run[r] EXCEPT !.reno_notes = res], "branch")
       ELSE Goto(r, run[r], "branch")
    /\ UNCHANGED remote

\* Lines 141-146.
BranchCut(r) ==
    LET pieces == Split(run[r].version_number)
        branch_name == BranchNumber(pieces)
        repo_branches == branches[run[r].repo]
    IN
    /\ run[r].pc = "branch"
    /\ IF conf[run[r].repo].branch_on_release
       THEN \E get_branches \in {"ok", "GithubException"} :
              IF get_branches # "ok"
              THEN /\ Fail(r, run[r], get_branches, "branch")
                   /\ UNCHANGED <<branches, created>>
              ELSE IF Len(pieces) < 3
              THEN /\ Fail(r, run[r], "IndexError", "branch")
                   /\ UNCHANGED <<branches, created>>
              ELSE /\ IF CutCondition(pieces, branch_name, repo_branches)
                      THEN /\ branches' = [branches EXCEPT
                                  ![run[r].repo] = @ \cup {branch_name}]
                           /\ created' = created \cup
                                  {[repo |-> run[r].repo, branch |-> branch_name,
                                    start |-> run[r].version_number, by |-> r,
                                    existed |-> branch_name \in repo_branches]}
                      ELSE UNCHANGED <<branches, created>>
                   /\ Goto(r, run[r], "log_range")
       ELSE /\ Goto(r, run[r], "log_range")
            /\ UNCHANGED <<branches, created>>
    /\ UNCHANGED <<releases, pulls, meta_branches, setup_py, meta_setup_py,
                   commits>>

\* Lines 147-160.
LogRange(r) ==
    LET res == LogString(run[r].version_number, Split(run[r].version_number)) IN
    /\ run[r].pc = "log_range"
    /\ IF IsRaised(res)
       THEN Fail(r, run[r], res.v, "log_range")
       ELSE Goto(r, [run[r] EXCEPT !.log_string = res], "release")
    /\ UNCHANGED remote

\* Lines 121-124, and for finish_release (lines 162-163) the end of the first
\* with statement.
CreateGithubRelease(r) ==
    /\ run[r].pc = "release"
    /\ \E git_log \in GitLogs, create_git_release \in {"ok", "GithubException"} :
        LET changelog == GenerateChangelog(git_log, run[r].categories)
            rec == [run[r] EXCEPT !.git_log = git_log]
        IN
        IF IsRaised(changelog)
        THEN /\ Fail(r, rec, changelog.v, "release")
             /\ UNCHANGED releases
        ELSE IF create_git_release # "ok"
        THEN /\ Fail(r, rec, create_git_release, "release")
             /\ UNCHANGED releases
        ELSE /\ releases' = releases \cup
                    {[repo |-> run[r].repo, tag |-> run[r].version_number,
                      name |-> <<run[r].repo, run[r].version_number>>,
                      body |-> changelog, by |-> r]}
             /\ IF run[r].op = "finish_release"
                THEN run' = [run EXCEPT ![r] = [rec EXCEPT !.pc = "lock_meta"]]
                ELSE run' = [run EXCEPT ![r] =
                        [Idle EXCEPT !.pc = "done", !.op = run[r].op,
                                     !.repo = run[r].repo,
                                     !.version_number = run[r].version_number,
                                     !.categories = run[r].categories,
                                     !.git_log = git_log]]
             /\ lock' = WithExit(lock, r)
    /\ UNCHANGED <<branches, created, pulls, meta_branches, setup_py,
                   meta_setup_py, commits>>

\* Lines 39-87 of bump_meta, and for finish_release (lines 166-167) the rest of
\* the second with statement.  Iterating the file opened for writing at line 66
\* raises io.UnsupportedOperation once the file is truncated, so no execution
\* reaches lines 68-87 or line 167.
BumpMeta(r) ==
    /\ run[r].pc = "bump"
    /\ \E tag \in Tags :
        LET res == NextMetaVersion(Split(run[r].version_number), tag)
            rec == [run[r] EXCEPT !.meta_version = tag]
        IN
        IF IsRaised(res)
        THEN /\ Fail(r, rec, res.v, "bump")
             /\ UNCHANGED <<meta_branches, setup_py>>
        ELSE /\ meta_branches' =
                    IF \E i \in 1..Len(pulls) : pulls[i] = "Bump Meta"
                    THEN meta_branches
                    ELSE meta_branches \cup {"bump_meta"}
             /\ setup_py' = [setup_py EXCEPT ![run[r].repo] = <<>>]
             /\ Fail(r, [rec EXCEPT !.new_meta_version = res],
                     "UnsupportedOperation", "bump")
    /\ UNCHANGED <<branches, created, releases, pulls, meta_setup_py, commits>>

Next ==
    \E r \in Runs :
        \/ CallFinishRelease(r)
        \/ CallCreateGithubRelease(r)
        \/ CallBumpMeta(r)
        \/ Acquire(r)
        \/ RunReno(r)
        \/ BranchCut(r)
        \/ LogRange(r)
        \/ CreateGithubRelease(r)
        \/ BumpMeta(r)

Spec == Init /\ [][Next]_vars

\* A step of run r other than entering a with statement: its external call
\* returns or fails.
Step(r) ==
    \/ RunReno(r)
    \/ BranchCut(r)
    \/ LogRange(r)
    \/ CreateGithubRelease(r)
    \/ BumpMeta(r)

\* The runs under scheduling assumptions: a run that can take a step takes it,
\* and a run waiting at a with statement whose lock file is free again and
\* again gets it.
FairSpec ==
    /\ Spec
    /\ \A r \in Runs : WF_vars(Step(r)) /\ SF_vars(Acquire(r))

\* ------------------------------------------------------------- properties
WellFormed(v) == Len(v) = 3

\* The run is inside the first with statement of finish_release (lines 139-163).
InReleaseSection(r) ==
    /\ run[r].op = "finish_release"
    /\ run[r].pc \in {"reno", "branch", "log_range", "release"}

\* The run is at a with statement and the lock file it asks for is held.
Blocked(r) ==
    /\ run[r].pc \in {"lock_repo", "lock_meta"}
    /\ lock[LockName(r)] # 0

Ended(r) == run[r].pc \in {"done", "failed"}

\* Every finish_release run ends at or before the log range: none reaches
\* create_github_release, the second with statement or bump_meta.
ReleaseNeverPublished ==
    \A r \in Runs :
        run[r].op = "finish_release" =>
            run[r].pc \notin {"release", "lock_meta", "bump", "done"}

\* No call of bump_meta gets past line 50.
BumpNeverPastVersion ==
    \A r \in Runs :
        run[r].op = "bump_meta" /\ Ended(r) =>
            run[r].err \in {"TypeError", "AttributeError", "IndexError"}

\* C1: two finish_release runs on the same repository name are never both
\* inside the release section, and the run inside it is the one holding the
\* repository's lock, so the other waits at the with statement until the
\* lock is released.
C1_MutualExclusion ==
    /\ \A r \in Runs : InReleaseSection(r) => lock[run[r].repo] = r
    /\ \A r1, r2 \in Runs :
        r1 # r2 /\ InReleaseSection(r1) /\ InReleaseSection(r2)
            => run[r1].repo # run[r2].repo

\* A run is inside the release section while another run for the same
\* repository waits for the lock.
C1_Witness ==
    \E r1, r2 \in Runs :
        /\ r1 # r2
        /\ InReleaseSection(r1)
        /\ run[r2].pc = "lock_repo"
        /\ run[r2].repo = run[r1].repo

\* C3: a run that waits at a with statement waits only for a run on the same
\* repository: the lock it asks for is never held by a run for a different
\* repository.
C3_NoCrossBlocking ==
    \A r \in Runs :
        Blocked(r) => run[lock[LockName(r)]].repo = run[r].repo

\* Two runs for different repositories are inside their release sections at
\* the same time.
C3_Witness ==
    \E r1, r2 \in Runs :
        /\ InReleaseSection(r1)
        /\ InReleaseSection(r2)
        /\ run[r1].repo # run[r2].repo

\* C4: a run that has left a critical section, by completing it or by an
\* exception raised inside it, holds no lock; in particular no ended run
\* holds a lock.
C4_LocksReleased ==
    \A r \in Runs :
        run[r].pc \in {"idle", "lock_repo", "lock_meta", "done", "failed"}
            => \A n \in LockNames : lock[n] # r

\* A finish_release run ended by an exception raised inside the release
\* section, and its repository's lock is free again.
C4_Witness ==
    \E r \in Runs :
        /\ run[r].op = "finish_release"
        /\ run[r].pc = "failed"
        /\ run[r].at \in {"reno", "branch", "log_range"}
        /\ lock[run[r].repo] = 0

\* What C6 expects of next_meta_version for release v and meta version m.
ExpectedMetaVersion(v, m) ==
    IF v[3] = 0 THEN <<m[1], m[2] + 1, 0>> ELSE <<m[1], m[2], m[3] + 1>>

\* C6: once bump_meta has computed the new meta version from a release
\* M.N.P and a meta version, the result has meta-minor incremented and
\* meta-patch zero if P = 0, and meta-patch incremented otherwise, the
\* components taken as integers.
C6_NextMetaVersion ==
    \A r \in Runs :
        /\ run[r].op = "bump_meta"
        /\ Ended(r)
        /\ WellFormed(run[r].version_number)
        /\ run[r].meta_version # NoTag
        => run[r].new_meta_version =
              [t |-> "text",
               v |-> ExpectedMetaVersion(run[r].version_number, run[r].meta_version)]

\* What C7 expects of the log range of release v.
ExpectedLogString(v) ==
    IF v[3] > 0
    THEN LogText(v, <<v[1], v[2], v[3] - 1>>)
    ELSE LogText(v, <<v[1], v[2] - 1, 0>>)

\* C7: once finish_release has executed the log range computation for a
\* release M.N.P, log_string is M.N.P...M.N.(P-1) if P > 0 and
\* M.N.0...M.(N-1).0 otherwise.
C7_LogRange ==
    \A r \in Runs :
        /\ run[r].op = "finish_release"
        /\ WellFormed(run[r].version_number)
        /\ \/ run[r].pc \in {"release", "lock_meta", "bump", "done"}
           \/ run[r].pc = "failed" /\ run[r].at \in {"log_range", "release", "bump"}
        => run[r].log_string = ExpectedLogString(run[r].version_number)

\* C10: every git.create_branch call on a releasing repository was made with
\* branch_on_release enabled, for a release whose patch component is 0, and
\* for a branch that was not among the repository's branches.
C10_BranchOnlyWhen ==
    \A c \in created :
        /\ conf[c.repo].branch_on_release
        /\ WellFormed(c.start)
        /\ c.start[3] = 0
        /\ ~c.existed

\* The run has executed the branch step (lines 141-146) of finish_release.
PastBranchStep(r) ==
    /\ run[r].op = "finish_release"
    /\ \/ run[r].pc = "log_range"
       \/ run[r].pc = "failed" /\ run[r].at = "log_range"

\* A patch release of a repository with branch_on_release enabled, and a
\* minor release whose stable branch exists, have passed the branch step
\* without a branch being created.
C10_Witness ==
    /\ \E r \in Runs :
        /\ PastBranchStep(r)
        /\ conf[run[r].repo].branch_on_release
        /\ run[r].version_number = <<1, 2, 1>>
    /\ \E r \in Runs :
        /\ PastBranchStep(r)
        /\ conf[run[r].repo].branch_on_release
        /\ run[r].version_number = <<1, 2, 0>>
        /\ <<1, 2>> \in branches[run[r].repo]
    /\ created = {}

\* The failures of the external collaborators (hosting API, notes tool), as
\* opposed to the exceptions the module's own statements raise.
ExternalFailures == {"GithubException", "FileNotFoundError"}

\* C11: a finish_release run for release 1.2.0 of a repository with reno and
\* branch_on_release enabled, whose external calls all succeed, ends
\* completed, with branch stable/1.2 on the remote, log range 1.2.0...1.1.0,
\* a hosted release "<repo> 1.2.0", and a branch bump_meta and a proposal
\* "Bump Meta" on the meta repository.
C11_EndToEndMinor ==
    \A r \in Runs :
        /\ run[r].op = "finish_release"
        /\ run[r].version_number = <<1, 2, 0>>
        /\ conf[run[r].repo].reno
        /\ conf[run[r].repo].branch_on_release
        /\ Ended(r)
        /\ run[r].err \notin ExternalFailures
        => /\ run[r].pc = "done"
           /\ <<1, 2>> \in branches[run[r].repo]
           /\ run[r].log_string = LogText(<<1, 2, 0>>, <<1, 1, 0>>)
           /\ \E rel \in releases :
                /\ rel.by = r
                /\ rel.name = <<run[r].repo, <<1, 2, 0>>>>
           /\ "bump_meta" \in meta_branches
           /\ \E i \in 1..Len(pulls) : pulls[i] = "Bump Meta"

\* C12: no outcome of the notes tool ends a finish_release run: a run never
\* fails at the release notes step.
C12_NotesNeverBlock ==
    \A r \in Runs :
        run[r].op = "finish_release" =>
            ~(run[r].pc = "failed" /\ run[r].at = "reno")

Malformed(git_log) == \E i \in 1..Len(git_log) : git_log[i].pr = 0

\* C14: a run whose git log has a malformed line has failed in changelog
\* generation, has published no release and has not started the meta bump.
C14_MalformedLogFatal ==
    \A r \in Runs :
        Malformed(run[r].git_log) =>
            /\ run[r].pc = "failed"
            /\ run[r].at = "release"
            /\ run[r].err = "TypeError"
            /\ ~\E rel \in releases : rel.by = r
            /\ run[r].new_meta_version = None
            /\ lock[MetaName] # r

C14_Witness ==
    \E r \in Runs :
        /\ Malformed(run[r].git_log)
        /\ run[r].op = "create_github_release"
        /\ run[r].pc = "failed"
        /\ releases = {}

\* The summaries of the log lines whose pull request carries `label`, in the
\* order of the log.
RECURSIVE SummariesUnder(_, _)
SummariesUnder(git_log, label) ==
    IF git_log = <<>> THEN <<>>
    ELSE IF label \in LabelsOf(Head(git_log).pr)
         THEN <<Head(git_log).summary>> \o SummariesUnder(Tail(git_log), label)
         ELSE SummariesUnder(Tail(git_log), label)

\* One subheading for each category, in the order of the category map, each
\* followed by the summaries under it.
RECURSIVE GroupedSections(_, _)
GroupedSections(git_log, categories) ==
    IF categories = <<>> THEN <<>>
    ELSE <<Head(categories)[2]>>
         \o SummariesUnder(git_log, Head(categories)[1])
         \o GroupedSections(git_log, Tail(categories))

\* The changelog the grouping rule asks for.
GroupedChangelog(git_log, categories) ==
    IF git_log = <<>> THEN None
    ELSE [t |-> "text", v |-> <<"# Changelog">> \o GroupedSections(git_log, categories)]

\* C15: a call of create_github_release that read a well-formed log and met no
\* failure of the hosting API publishes a release whose body groups the
\* summaries by category: one subheading for each category in the order of the
\* category map, under it the summaries carrying its label in log order, the
\* other summaries left out, and no changelog for an empty log.
C15_ChangelogGrouping ==
    \A r \in Runs :
        /\ run[r].op = "create_github_release"
        /\ Ended(r)
        /\ ~Malformed(run[r].git_log)
        /\ run[r].err # "GithubException"
        => /\ run[r].pc = "done"
           /\ \E rel \in releases :
                /\ rel.by = r
                /\ rel.body = GroupedChangelog(run[r].git_log, run[r].categories)

\* The commits run r made on the meta repository.
CommitsBy(r) == {i \in 1..Len(commits) : commits[i].by = r}

\* C17: a call of bump_meta for a three-part version, with a latest tag to
\* start from and no "Bump Meta" pull request open, returns having created the
\* branch bump_meta, made exactly one commit and opened the pull request.
C17_BumpTransitions ==
    \A r \in Runs :
        /\ run[r].op = "bump_meta"
        /\ Ended(r)
        /\ WellFormed(run[r].version_number)
        /\ run[r].meta_version # NoTag
        => /\ run[r].pc = "done"
           /\ "bump_meta" \in meta_branches
           /\ Cardinality(CommitsBy(r)) = 1
           /\ \E i \in 1..Len(pulls) : pulls[i] = "Bump Meta"

\* The line of a setup.py that pins package pkg, and its version line.
PinOf(lines, pkg) ==
    {lines[i].v : i \in {j \in 1..Len(lines) :
                            lines[j].kind = "pin" /\ lines[j].pkg = pkg}}
VersionOf(lines) ==
    {lines[i].v : i \in {j \in 1..Len(lines) : lines[j].kind = "version"}}

\* C18: after a call of bump_meta for a three-part version with a latest tag
\* to start from, the meta repository's setup.py pins the released package to
\* the released version and carries the next meta version, its other lines
\* are as before, and the releasing repository's setup.py is as before.
C18_ManifestFrame ==
    \A r \in Runs :
        /\ run[r].op = "bump_meta"
        /\ Ended(r)
        /\ WellFormed(run[r].version_number)
        /\ run[r].meta_version # NoTag
        => /\ PinOf(meta_setup_py, run[r].repo) = {run[r].version_number}
           /\ VersionOf(meta_setup_py) =
                  {ExpectedMetaVersion(run[r].version_number, run[r].meta_version)}
           /\ \A i \in 1..Len(Manifest) :
                  \/ Manifest[i].kind = "version"
                  \/ Manifest[i].kind = "pin" /\ Manifest[i].pkg = run[r].repo
                  \/ meta_setup_py[i] = Manifest[i]
           /\ Len(meta_setup_py) = Len(Manifest)
           /\ setup_py = [rp \in Repos |-> Manifest]

\* The finish_release runs that have not ended.
Remaining == {r \in Runs : run[r].op = "finish_release" /\ ~Ended(r)}

NotAllBlocked == Remaining # {} => \E r \in Remaining : ~Blocked(r)

\* C20: the remaining finish_release runs are never all waiting for locks,
\* and under fair scheduling every finish_release run ends, by returning or
\* by an exception, holding no lock.
C20_Termination ==
    /\ []NotAllBlocked
    /\ \A r \in Runs :
          (run[r].op = "finish_release")
              ~> (Ended(r) /\ \A n \in LockNames : lock[n] # r)

C20_Witness ==
    \E r1, r2 \in Runs :
        /\ r1 # r2
        /\ run[r1].op = "finish_release" /\ run[r2].op = "finish_release"
        /\ run[r1].repo = run[r2].repo
        /\ Ended(r1) /\ Ended(r2)
        /\ run[r1].at = "log_range" /\ run[r2].at = "log_range"
        /\ \A n \in LockNames : lock[n] = 0

====
